---- MODULE Spec2Model ----
(***************************************************************************)
(* Sign-up feature of solid-example: entity layer (BaseEntity / User),     *)
(* in-memory repository (ArrayUserRepository), use case (SignUpUseCase)    *)
(* and HTTP adapter (SignUpController), wired by SignUpFactory / routes.   *)
(*                                                                         *)
(* Objects live in two heaps: `heap` holds the property bags (plain JS     *)
(* objects {name, email, password}) and `entities` holds the User objects, *)
(* each an own-property pair {_id, props} where props is a REFERENCE into  *)
(* `heap`.  Async functions run synchronously up to their first await and  *)
(* each await resumes from the FIFO microtask queue `queue`.               *)
(***************************************************************************)
EXTENDS Integers, Sequences, FiniteSets, TLC

\* ---------------------------------------------------------------- bounds
\* number of sign-up requests the HTTP layer receives
NReq == 2
\* number of entities a direct caller of the entity layer constructs
MaxEntities == 3
\* number of users a direct caller of the repository constructs, and stores
MaxStore == 2
\* number of writes a direct caller makes to property bags it handed over
MaxWrites == 1

\* ---------------------------------------------------------------- inputs
Names == {"Ana"}
Emails == {"ana@x.com", "Ana@x.com"}
Passwords == {"secret"}

\* values a field of a request body may carry: a non-empty string or ""
FieldValues(f) ==
  CASE f = "name" -> Names \cup {""}
    [] f = "email" -> Emails \cup {""}
    [] f = "password" -> Passwords \cup {""}

FieldNames == {"name", "email", "password"}

\* a JSON body object: any subset of the three fields may be present
Bodies ==
  UNION { { b \in [S -> Names \cup Emails \cup Passwords \cup {""}] :
              \A f \in S : b[f] \in FieldValues(f) } : S \in SUBSET FieldNames }

\* request.body is an object, or undefined when nothing parsed a body
Requests ==
  { [hasBody |-> TRUE, body |-> b] : b \in Bodies }
    \cup { [hasBody |-> FALSE, body |-> << >>] }

\* the optional constructor argument id?: string
NoId == [given |-> FALSE, id |-> ""]
ExplicitIds == {"", "id-1"}
IdArgs == {NoId} \cup { [given |-> TRUE, id |-> s] : s \in ExplicitIds }

\* property bags a direct caller builds (no validation in the entity layer)
PropsValues == [name : Names, email : Emails \cup {""}, password : Passwords]

\* the JS null returned by findByEmail / an unset reference
Null == 0

VARIABLES
  heap,        \* property-bag objects, by address
  entities,    \* User objects, by address: [_id, props]
  ctorArgs,    \* per entity, the arguments its constructor was called with
  generated,   \* number of identifiers drawn from uuidv4 so far
  users,       \* ArrayUserRepository.users: entity addresses in push order
  lastCreate,  \* last create call: its argument and the value it resolved to
  found,       \* last direct findByEmail call: argument, result, store size
  writes,      \* the caller's writes to property bags so far: [p, f, v]
  started,     \* number of requests whose handler has been entered
  request,     \* per request, the express Request (hasBody, body)
  pc,          \* per request, where its handler is suspended
  ucRequest,   \* per request, address of the {name,email,password} literal
  userExist,   \* per request, SignUpUseCase.handle's local userExist
  user,        \* per request, SignUpUseCase.handle's local user
  thrown,      \* per request, the error raised while handling it ("" none)
  responses,   \* per request, the responses sent, in order
  queue        \* microtask queue: requests whose continuation is ready

vars == << heap, entities, ctorArgs, generated, users, lastCreate, found,
           writes, started, request, pc, ucRequest, userExist, user, thrown,
           responses, queue >>

entityVars == << heap, entities, ctorArgs, generated >>
httpVars == << started, request, pc, ucRequest, userExist, user, thrown,
               responses, queue >>

ReqIds == 1..NReq

\* ---------------------------------------------------------------- entities
\* the identifiers the uuid package hands out, in the order it hands them out
UuidStream == << "uuid-1", "uuid-2", "uuid-3", "uuid-4", "uuid-5", "uuid-6" >>

\* mutant: an identifier drawn once and used for every entity
uuidv4Once(n) == UuidStream[1]

\* uuidv4(): the (n+1)-th draw, n identifiers having been drawn before
uuidv4(n) == UuidStream[n + 1]

\* mutant: id ?? uuidv4(), which keeps the empty string
IdOrUuidNullish(idArg, n) == IF idArg.given THEN idArg.id ELSE uuidv4(n)

\* id || uuidv4(): an absent id and the empty string are both falsy
IdOrUuid(idArg, n) ==
  IF idArg.given /\ idArg.id # "" THEN idArg.id ELSE uuidv4(n)

\* number of draws the constructor makes
Draws(idArg) == IF idArg.given /\ idArg.id # "" THEN 0 ELSE 1

\* mutant: this.props = {...props}, a copy of the bag at a new address
BaseEntityCopy(h, n, p, idArg) ==
  [ heap |-> Append(h, h[p]),
    entity |-> [_id |-> IdOrUuid(idArg, n), props |-> Len(h) + 1],
    generated |-> n + Draws(idArg) ]

\* BaseEntity constructor: this._id = id || uuidv4(); this.props = props.
\* h is the heap, n the draws so far, p the address of the props argument.
BaseEntity(h, n, p, idArg) ==
  [ heap |-> h,
    entity |-> [_id |-> IdOrUuid(idArg, n), props |-> p],
    generated |-> n + Draws(idArg) ]

\* User constructor: super(props, id)
User(h, n, p, idArg) == BaseEntity(h, n, p, idArg)

\* accessors of BaseEntity and User
id(e) == entities[e]._id
name(e) == heap[entities[e].props].name
email(e) == heap[entities[e].props].email
password(e) == heap[entities[e].props].password

\* ---------------------------------------------------------------- repository
\* Array.prototype.find with (item) => item.email === email, from index i
RECURSIVE FindFrom(_, _, _)
FindFrom(us, mail, i) ==
  IF i > Len(us) THEN Null
  ELSE IF email(us[i]) = mail THEN us[i]
  ELSE FindFrom(us, mail, i + 1)

\* mutant: the scan compares the user's name with the email
findByEmailName(us, mail) ==
  IF \E i \in DOMAIN us : name(us[i]) = mail
    THEN us[CHOOSE i \in DOMAIN us :
              name(us[i]) = mail /\ \A j \in DOMAIN us : name(us[j]) = mail => i <= j]
    ELSE Null

\* mutant: findLast, the latest-inserted match
findByEmailLast(us, mail) ==
  IF \E i \in DOMAIN us : email(us[i]) = mail
    THEN us[CHOOSE i \in DOMAIN us :
              email(us[i]) = mail /\ \A j \in DOMAIN us : email(us[j]) = mail => j <= i]
    ELSE Null

\* ArrayUserRepository.findByEmail
findByEmail(us, mail) == FindFrom(us, mail, 1)

\* mutant: this.users.concat(user), which leaves the array as it was
createConcat(us, u) == [users |-> us, ret |-> u]

\* mutant: this.users.unshift(user), which inserts at the front
createUnshift(us, u) == [users |-> << u >> \o us, ret |-> u]

\* ArrayUserRepository.create: this.users.push(user); return user
create(us, u) == [users |-> Append(us, u), ret |-> u]

\* ---------------------------------------------------------------- controller
requiredFields == << "name", "email", "password" >>

\* mutant: !(field in request.body), which lets the empty string through
MissingAbsent(body, f) == f \notin DOMAIN body

\* !request.body[field]: the field is absent or its value is falsy ("")
Missing(body, f) == f \notin DOMAIN body \/ body[f] = ""

\* the for-of loop over requiredFields: index of the first field that fails
\* the check, 0 when all pass
RECURSIVE FirstMissingFrom(_, _)
FirstMissingFrom(body, i) ==
  IF i > Len(requiredFields) THEN 0
  ELSE IF Missing(body, requiredFields[i]) THEN i
  ELSE FirstMissingFrom(body, i + 1)

FirstMissing(body) == FirstMissingFrom(body, 1)

BadRequest(f) ==
  [ status |-> 400,
    body |-> [message |-> "Field " \o f \o " params is required.",
              error |-> "Bad request"] ]

\* mutant: a serialization through the accessors
SerializeAccessors(e) ==
  [ id |-> entities[e]._id,
    name |-> heap[entities[e].props].name,
    email |-> heap[entities[e].props].email,
    password |-> heap[entities[e].props].password ]

\* JSON.stringify of a User: its own enumerable properties, _id and props
\* (the accessors id, name, email, password live on the prototype)
Serialize(e) == [_id |-> entities[e]._id, props |-> heap[entities[e].props]]

Created(e) ==
  [ status |-> 201,
    body |-> [message |-> "User created successfully", user |-> Serialize(e)] ]

\* JSON.stringify of an Error: it has no enumerable own property
SerializeError(err) == << >>

ServerError(err) ==
  [ status |-> 500,
    body |-> [message |-> "Error creating user", error |-> SerializeError(err)] ]

\* ---------------------------------------------------------------- initial state
Init ==
  /\ heap = << >>
  /\ entities = << >>
  /\ ctorArgs = << >>
  /\ generated = 0
  /\ users = << >>
  /\ lastCreate = [arg |-> Null, ret |-> Null]
  /\ found = [email |-> "", result |-> Null, at |-> -1]
  /\ writes = << >>
  /\ started = 0
  /\ request = [r \in ReqIds |-> [hasBody |-> FALSE, body |-> << >>]]
  /\ pc = [r \in ReqIds |-> "idle"]
  /\ ucRequest = [r \in ReqIds |-> Null]
  /\ userExist = [r \in ReqIds |-> Null]
  /\ user = [r \in ReqIds |-> Null]
  /\ thrown = [r \in ReqIds |-> ""]
  /\ responses = [r \in ReqIds |-> << >>]
  /\ queue = << >>

\* ---------------------------------------------------------------- HTTP handler
\* SignUpController.handle entered with no request.body: request.body[field]
\* throws a TypeError inside the try block and the catch answers 500.
StartNoBody(rq) ==
  LET r == started + 1 IN
  /\ started < NReq
  /\ ~rq.hasBody
  /\ started' = r
  /\ request' = [request EXCEPT ![r] = rq]
  /\ thrown' = [thrown EXCEPT ![r] = "TypeError"]
  /\ responses' = [responses EXCEPT ![r] = Append(@, ServerError("TypeError"))]
  /\ pc' = [pc EXCEPT ![r] = "done"]
  /\ UNCHANGED << entityVars, users, lastCreate, found, writes, ucRequest, userExist,
                  user, queue >>

\* SignUpController.handle: a required field fails the check; 400 is
\* returned from inside the loop and the use case is never called.
StartInvalid(rq) ==
  LET r == started + 1 IN
  /\ started < NReq
  /\ rq.hasBody
  /\ FirstMissing(rq.body) # 0
  /\ started' = r
  /\ request' = [request EXCEPT ![r] = rq]
  /\ responses' = [responses EXCEPT ![r] =
        Append(@, BadRequest(requiredFields[FirstMissing(rq.body)]))]
  /\ pc' = [pc EXCEPT ![r] = "done"]
  /\ UNCHANGED << entityVars, users, lastCreate, found, writes, ucRequest, userExist,
                  user, thrown, queue >>

\* SignUpController.handle with all fields truthy: builds {name, email,
\* password}, calls SignUpUseCase.handle, which calls findByEmail; the scan
\* runs synchronously and the use case suspends at its first await.
StartValid(rq) ==
  LET r == started + 1
      p == Len(heap) + 1 IN
  /\ started < NReq
  /\ rq.hasBody
  /\ FirstMissing(rq.body) = 0
  /\ started' = r
  /\ request' = [request EXCEPT ![r] = rq]
  /\ heap' = Append(heap, [name |-> rq.body["name"],
                           email |-> rq.body["email"],
                           password |-> rq.body["password"]])
  /\ ucRequest' = [ucRequest EXCEPT ![r] = p]
  /\ userExist' = [userExist EXCEPT ![r] = findByEmail(users, rq.body["email"])]
  /\ pc' = [pc EXCEPT ![r] = "awaitFind"]
  /\ queue' = Append(queue, r)
  /\ UNCHANGED << entities, ctorArgs, generated, users, lastCreate, found, writes,
                  user, thrown, responses >>

\* SignUpUseCase.handle resumes after await findByEmail with a user found:
\* throws, which rejects the promise the controller awaits.
ThrowExists ==
  /\ queue # << >>
  /\ LET r == Head(queue) IN
     /\ pc[r] = "awaitFind"
     /\ userExist[r] # Null
     /\ thrown' = [thrown EXCEPT ![r] = "User already exists."]
     /\ pc' = [pc EXCEPT ![r] = "awaitHandle"]
     /\ queue' = Append(Tail(queue), r)
  /\ UNCHANGED << entityVars, users, lastCreate, found, writes, started, request,
                  ucRequest, userExist, user, responses >>

\* SignUpUseCase.handle resumes after await findByEmail with null: new
\* User(request), then create(user) pushes synchronously and handle suspends
\* at await create.
CreateUser ==
  /\ queue # << >>
  /\ LET r == Head(queue)
         c == User(heap, generated, ucRequest[r], NoId)
         e == Len(entities) + 1
         k == create(users, e) IN
     /\ pc[r] = "awaitFind"
     /\ userExist[r] = Null
     /\ heap' = c.heap
     /\ generated' = c.generated
     /\ entities' = Append(entities, c.entity)
     /\ ctorArgs' = Append(ctorArgs, [props |-> ucRequest[r], id |-> NoId])
     /\ user' = [user EXCEPT ![r] = e]
     /\ users' = k.users
     /\ lastCreate' = [arg |-> e, ret |-> k.ret]
     /\ pc' = [pc EXCEPT ![r] = "awaitCreate"]
     /\ queue' = Append(Tail(queue), r)
  /\ UNCHANGED << found, writes, started, request, ucRequest, userExist, thrown,
                  responses >>

\* SignUpUseCase.handle resumes after await create: return user, which
\* fulfils the promise the controller awaits.
ReturnUser ==
  /\ queue # << >>
  /\ LET r == Head(queue) IN
     /\ pc[r] = "awaitCreate"
     /\ pc' = [pc EXCEPT ![r] = "awaitHandle"]
     /\ queue' = Append(Tail(queue), r)
  /\ UNCHANGED << entityVars, users, lastCreate, found, writes, started, request,
                  ucRequest, userExist, user, thrown, responses >>

\* mutant: no catch block, a rejected handle leaves the request unanswered
RespondUncaught ==
  /\ queue # << >>
  /\ LET r == Head(queue) IN
     /\ pc[r] = "awaitHandle"
     /\ responses' = [responses EXCEPT ![r] =
           IF thrown[r] = "" THEN Append(@, Created(user[r])) ELSE @]
     /\ pc' = [pc EXCEPT ![r] = "done"]
     /\ queue' = Tail(queue)
  /\ UNCHANGED << entityVars, users, lastCreate, found, writes, started,
                  request, ucRequest, userExist, user, thrown >>

\* SignUpController.handle resumes after await handle: 201 with the user,
\* or the catch block answers 500.
Respond ==
  /\ queue # << >>
  /\ LET r == Head(queue) IN
     /\ pc[r] = "awaitHandle"
     /\ responses' = [responses EXCEPT ![r] =
           Append(@, IF thrown[r] = "" THEN Created(user[r])
                     ELSE ServerError(thrown[r]))]
     /\ pc' = [pc EXCEPT ![r] = "done"]
     /\ queue' = Tail(queue)
  /\ UNCHANGED << entityVars, users, lastCreate, found, writes, started, request,
                  ucRequest, userExist, user, thrown >>

Resume == ThrowExists \/ CreateUser \/ ReturnUser \/ Respond

\* a handler may be entered at any time, also while others are suspended
Start ==
  \E rq \in Requests : StartNoBody(rq) \/ StartInvalid(rq) \/ StartValid(rq)

Next == Start \/ Resume

Spec == Init /\ [][Next]_vars

\* each handle call runs to completion before the next one starts
StartSeq ==
  /\ queue = << >>
  /\ \E rq \in Requests : StartNoBody(rq) \/ StartInvalid(rq) \/ StartValid(rq)

NextSeq == StartSeq \/ Resume

SpecSeq == Init /\ [][NextSeq]_vars

\* ---------------------------------------------------------------- direct callers
\* a caller builds a property bag and calls new User(props, id?)
NewUser(pv, idArg) ==
  LET p == Len(heap) + 1
      c == User(Append(heap, pv), generated, p, idArg) IN
  /\ heap' = c.heap
  /\ generated' = c.generated
  /\ entities' = Append(entities, c.entity)
  /\ ctorArgs' = Append(ctorArgs, [props |-> p, id |-> idArg])
  /\ UNCHANGED << users, lastCreate, found, writes, httpVars >>

\* a caller awaits ArrayUserRepository.create(user)
RepoCreate(e) ==
  LET k == create(users, e) IN
  /\ Len(users) < MaxStore
  /\ users' = k.users
  /\ lastCreate' = [arg |-> e, ret |-> k.ret]
  /\ UNCHANGED << entityVars, found, writes, httpVars >>

\* a caller awaits ArrayUserRepository.findByEmail(email)
RepoFind(mail) ==
  /\ found' = [email |-> mail, result |-> findByEmail(users, mail),
               at |-> Len(users)]
  /\ UNCHANGED << entityVars, users, lastCreate, writes, httpVars >>

\* a caller assigns a field of a property bag it passed to a constructor
\* (the object is also reachable as entity.props, a public field)
WriteProps(p, f, v) ==
  /\ Len(writes) < MaxWrites
  /\ heap[p][f] # v
  /\ heap' = [heap EXCEPT ![p][f] = v]
  /\ writes' = Append(writes, [p |-> p, f |-> f, v |-> v])
  /\ UNCHANGED << entities, ctorArgs, generated, users, lastCreate, found,
                  httpVars >>

\* a caller constructs entities, with and without an identifier
Construct ==
  /\ Len(entities) < MaxEntities
  /\ \E pv \in PropsValues, idArg \in IdArgs : NewUser(pv, idArg)

\* a caller constructs a user to store, as the use case does, without one
ConstructUser ==
  /\ Len(entities) < MaxStore
  /\ \E pv \in PropsValues : NewUser(pv, NoId)

Store == \E e \in DOMAIN entities : RepoCreate(e)
Lookup == \E mail \in Emails \cup {""} : RepoFind(mail)
Write ==
  \E p \in DOMAIN heap, f \in FieldNames : \E v \in FieldValues(f) :
    WriteProps(p, f, v)

\* the entity layer driven directly
NextEntity == Construct

SpecEntity == Init /\ [][NextEntity]_vars

\* the repository driven directly
NextRepo == ConstructUser \/ Store \/ Lookup

SpecRepo == Init /\ [][NextRepo]_vars

\* the same, with a caller that keeps and writes the bags it handed over
NextAlias == ConstructUser \/ Store \/ Write

SpecAlias == Init /\ [][NextAlias]_vars

\* ---------------------------------------------------------------- vocabulary
\* request r has been received
Received(r) == r <= started

\* request r carries a body object in which every required field is a
\* non-empty string
Valid(r) ==
  /\ Received(r)
  /\ request[r].hasBody
  /\ \A f \in FieldNames :
       f \in DOMAIN request[r].body /\ request[r].body[f] # ""

\* request r has been answered, with exactly this status
Answered(r, st) ==
  pc[r] = "done" /\ Len(responses[r]) = 1 /\ responses[r][1].status = st

\* positions of the store holding a user with this email
Holding(mail) == { i \in DOMAIN users : email(users[i]) = mail }

\* the store holds no two users with the same email
UniqueEmails ==
  \A i, j \in DOMAIN users : i # j => email(users[i]) # email(users[j])

\* ---------------------------------------------------------------- C1
\* C1: when each handle call runs to completion before the next starts, a
\* request whose email already belongs to a stored user is rejected with the
\* "User already exists." error and stores nothing, so the store never holds
\* two users with the same email.
C1_Unique ==
  /\ UniqueEmails
  /\ \A r \in ReqIds :
       ( /\ Valid(r)
         /\ \E i \in DOMAIN users :
              /\ users[i] # user[r]
              /\ email(users[i]) = request[r].body["email"] )
       => /\ user[r] = Null
          /\ \A i \in DOMAIN users : entities[users[i]].props # ucRequest[r]
          /\ pc[r] \in {"awaitHandle", "done"} => thrown[r] = "User already exists."
          /\ pc[r] = "done" => Answered(r, 500)

C1_Witness ==
  \E r \in ReqIds :
    /\ Valid(r)
    /\ Answered(r, 500)
    /\ thrown[r] = "User already exists."
    /\ Len(users) = 1
    /\ email(users[1]) = request[r].body["email"]

\* ---------------------------------------------------------------- C2
\* fields of the body that are absent
Absent(body) == { f \in FieldNames : f \notin DOMAIN body }

\* fields of the body that are absent or hold the empty string
Falsy(body) == { f \in FieldNames : f \notin DOMAIN body \/ body[f] = "" }

\* the first field of S in the order name, email, password
FirstOf(S) ==
  IF "name" \in S THEN "name" ELSE IF "email" \in S THEN "email" ELSE "password"

RequiredMessage(f) ==
  CASE f = "name" -> "Field name params is required."
    [] f = "email" -> "Field email params is required."
    [] f = "password" -> "Field password params is required."

\* request r got the 400 answer naming field f and went no further
Refused(r, f) ==
  /\ pc[r] = "done"
  /\ responses[r] = << [status |-> 400,
                        body |-> [message |-> RequiredMessage(f),
                                  error |-> "Bad request"]] >>
  /\ ucRequest[r] = Null
  /\ userExist[r] = Null
  /\ user[r] = Null
  /\ thrown[r] = ""

\* C2 as first stated: every body lacking a field is answered 400 naming the
\* first ABSENT field
C2_Original ==
  \A r \in ReqIds :
    (Received(r) /\ request[r].hasBody /\ Absent(request[r].body) # {})
      => Refused(r, FirstOf(Absent(request[r].body)))

\* C2 (amended): every request whose body object lacks a required field, or
\* holds a falsy value (the empty string) for it, is answered 400 with message "Field <f>
\* params is required.", <f> being the first field in the order name, email,
\* password that is absent or falsy (the empty string); the use case and the repository are not
\* invoked for it and the step that answers leaves store and heaps unchanged.
C2_FirstFalsy ==
  [][ /\ \A r \in ReqIds :
           (r <= started' /\ request'[r].hasBody /\ Falsy(request'[r].body) # {})
             => Refused(r, FirstOf(Falsy(request[r].body)))'
      /\ \A r \in ReqIds :
           (started' = r /\ started = r - 1 /\ request'[r].hasBody
              /\ Falsy(request'[r].body) # {})
             => UNCHANGED << users, lastCreate, heap, entities, generated, queue >>
    ]_vars

C2_Witness ==
  \E r \in ReqIds :
    /\ Received(r)
    /\ request[r].hasBody
    /\ request[r].body = [name |-> "Ana"]
    /\ Refused(r, "email")
    /\ \E q \in ReqIds : q < r /\ Answered(q, 201) /\ Len(users) = 1

\* ---------------------------------------------------------------- C3
\* C3: two requests for the same email that both saw "not found" at the
\* lookup and both ran on are both persisted: the store holds two distinct
\* users with that email (the state C3_Witness shows to be reachable), and
\* both are answered 201.
C3_Race ==
  \A r1, r2 \in ReqIds :
    ( /\ r1 # r2
      /\ Valid(r1) /\ Valid(r2)
      /\ request[r1].body["email"] = request[r2].body["email"]
      /\ userExist[r1] = Null /\ userExist[r2] = Null
      /\ pc[r1] \in {"awaitCreate", "awaitHandle", "done"}
      /\ pc[r2] \in {"awaitCreate", "awaitHandle", "done"} )
    => /\ \E i, j \in Holding(request[r1].body["email"]) :
            i # j /\ users[i] = user[r1] /\ users[j] = user[r2]
       /\ user[r1] # user[r2]
       /\ pc[r1] = "done" => Answered(r1, 201)
       /\ pc[r2] = "done" => Answered(r2, 201)

C3_Witness ==
  \E r1, r2 \in ReqIds :
    /\ r1 # r2
    /\ Valid(r1) /\ Valid(r2)
    /\ request[r1].body["email"] = request[r2].body["email"]
    /\ userExist[r1] = Null /\ userExist[r2] = Null
    /\ Answered(r1, 201) /\ Answered(r2, 201)
    /\ Cardinality(Holding(request[r1].body["email"])) = 2
    /\ ~UniqueEmails

\* ---------------------------------------------------------------- C4
\* the user of request r is stored and is what the request asked for
Persisted(r) ==
  /\ user[r] # Null
  /\ \E i \in DOMAIN users : users[i] = user[r]
  /\ name(user[r]) = request[r].body["name"]
  /\ email(user[r]) = request[r].body["email"]
  /\ password(user[r]) = request[r].body["password"]
  /\ id(user[r]) # ""
  /\ \A i \in DOMAIN users : users[i] # user[r] => id(users[i]) # id(user[r])

\* no user other than request r's own is stored with the request's email
FreshEmail(r) ==
  \A i \in DOMAIN users :
    users[i] # user[r] => email(users[i]) # request[r].body["email"]

\* no user stored before request r's own has the request's email
FreshWhenStored(r) ==
  \A i, j \in DOMAIN users :
    (users[j] = user[r] /\ i < j) => email(users[i]) # request[r].body["email"]

\* C4 as first stated: all three fields PRESENT and the email not in the
\* store suffice for a persisted user, found again by its email, and a 201
C4_Original ==
  \A r \in ReqIds :
    ( /\ Received(r)
      /\ request[r].hasBody
      /\ DOMAIN request[r].body = FieldNames
      /\ FreshEmail(r)
      /\ pc[r] = "done" )
    => /\ Persisted(r)
       /\ findByEmail(users, request[r].body["email"]) = user[r]
       /\ Answered(r, 201)

\* C4 (amended): for every request whose three fields are present and
\* non-empty and whose lookup found no user, handle constructs and stores a
\* user whose name, email and password equal the request's and whose id is
\* non-empty and differs from every other stored user's; when the email is
\* not in the store at the moment the user is stored (always so when requests
\* do not overlap), findByEmail with that email returns that same user; the
\* controller answers 201.
C4_Persisted ==
  \A r \in ReqIds :
    (Valid(r) /\ userExist[r] = Null /\ pc[r] # "awaitFind")
    => /\ Persisted(r)
       /\ FreshWhenStored(r) => findByEmail(users, request[r].body["email"]) = user[r]
       /\ thrown[r] = ""
       /\ pc[r] = "done" => Answered(r, 201)

C4_Witness ==
  \E r \in ReqIds :
    /\ Valid(r)
    /\ Answered(r, 201)
    /\ Len(users) = 2
    /\ users[2] = user[r]
    /\ findByEmail(users, request[r].body["email"]) = user[r]
    /\ id(users[1]) # id(users[2])

\* ---------------------------------------------------------------- C5
\* C5: every error raised while handling a request is caught in the handler:
\* the "user already exists" failure and any other failure yield a 500 with
\* message "Error creating user"; a request that has not been answered has its
\* continuation in the microtask queue, an answered one has exactly one
\* response, with status 201, 400 or 500; a request whose lookup found the
\* user an earlier request stored is answered 500 after that one's 201.
C5_Caught ==
  /\ \A r \in ReqIds :
       /\ pc[r] = "done" =>
            /\ Len(responses[r]) = 1
            /\ responses[r][1].status \in {201, 400, 500}
       /\ pc[r] # "done" => responses[r] = << >>
       /\ (Received(r) /\ pc[r] # "done") =>
            Cardinality({ k \in DOMAIN queue : queue[k] = r }) = 1
       /\ (pc[r] = "done" /\ thrown[r] # "") =>
            /\ responses[r][1].status = 500
            /\ responses[r][1].body.message = "Error creating user"
       /\ (pc[r] = "done" /\ thrown[r] = "") => responses[r][1].status \in {201, 400}
       /\ (Valid(r) /\ userExist[r] # Null /\ pc[r] # "awaitFind") =>
            thrown[r] = "User already exists."
       /\ (Received(r) /\ ~request[r].hasBody) => thrown[r] = "TypeError"
  /\ \A r1, r2 \in ReqIds :
       (userExist[r2] # Null /\ userExist[r2] = user[r1] /\ pc[r2] = "done"
          /\ pc[r1] = "done")
         => Answered(r1, 201) /\ Answered(r2, 500)
  /\ queue # << >> => pc[Head(queue)] \in {"awaitFind", "awaitCreate", "awaitHandle"}

C5_Witness ==
  \E r1, r2 \in ReqIds :
    /\ r1 < r2
    /\ Valid(r1) /\ Valid(r2)
    /\ request[r1].body["email"] = request[r2].body["email"]
    /\ Answered(r1, 201)
    /\ Answered(r2, 500)
    /\ thrown[r2] = "User already exists."
    /\ responses[r2][1].body.message = "Error creating user"

\* ---------------------------------------------------------------- C7
\* C7 as first stated: the serialized user of a 201 body has the fields id,
\* name, email and password, user.email being the request's email
C7_Original ==
  \A r \in ReqIds :
    Answered(r, 201)
    => /\ responses[r][1].body.message = "User created successfully"
       /\ {"id", "name", "email", "password"} \subseteq DOMAIN responses[r][1].body.user
       /\ responses[r][1].body.user.email = request[r].body["email"]
       /\ responses[r][1].body.user.id = id(user[r])

\* C7 (amended): the body of every 201 response is {message: "User created
\* successfully", user: <serialized User>} in which the serialized user is
\* {_id, props: {name, email, password}}: user.props.name, user.props.email
\* and user.props.password equal the request's values and user._id is the
\* generated identifier.
C7_Body ==
  \A r \in ReqIds :
    Answered(r, 201)
    => /\ Valid(r)
       /\ responses[r][1].body =
            [ message |-> "User created successfully",
              user |-> [ _id |-> id(user[r]),
                         props |-> [ name |-> request[r].body["name"],
                                     email |-> request[r].body["email"],
                                     password |-> request[r].body["password"] ] ] ]
       /\ \E n \in 1..generated : id(user[r]) = UuidStream[n]

C7_Witness ==
  \E r \in ReqIds :
    /\ Answered(r, 201)
    /\ request[r].body = [name |-> "Ana", email |-> "ana@x.com", password |-> "secret"]
    /\ responses[r][1].body.user.props.email = "ana@x.com"
    /\ responses[r][1].body.user._id = "uuid-1"

\* ---------------------------------------------------------------- C9
\* requests that have stored a user
Stored == { r \in ReqIds : user[r] # Null }

\* C9: the list starts empty and is append-only under every interleaving:
\* each create appends exactly the given user at the end and resolves to it,
\* the earlier list is always a prefix of the later one, each request's user
\* is in the list exactly once, and the list's length is the number of
\* requests that stored a user, which once answered are exactly those
\* answered 201 (requests answered 400 or 500 added nothing).
C9_AppendOnly ==
  [][ /\ Len(users') >= Len(users)
      /\ SubSeq(users', 1, Len(users)) = users
      /\ users' # users =>
           /\ users' = Append(users, lastCreate'.arg)
           /\ lastCreate'.ret = lastCreate'.arg
           /\ entities' = Append(entities, entities'[lastCreate'.arg])
      /\ ( /\ Len(users) = Cardinality(Stored)
           /\ \A r \in Stored :
                Cardinality({ i \in DOMAIN users : users[i] = user[r] }) = 1
           /\ \A r \in ReqIds :
                pc[r] = "done" => (Answered(r, 201) <=> r \in Stored) )'
    ]_vars

C9_Witness ==
  /\ Len(users) = 1
  /\ \E r1, r2 \in ReqIds :
       /\ Answered(r1, 201)
       /\ r1 \in Stored
       /\ Answered(r2, 500)
       /\ r2 \notin Stored

\* ---------------------------------------------------------------- C6
\* entity e was constructed with this explicit identifier argument
GivenId(e) == ctorArgs[e].id.given

\* entity e was constructed with no identifier, or with the empty string
DrewId(e) == ~ctorArgs[e].id.given \/ ctorArgs[e].id.id = ""

\* C6 as first stated: EVERY identifier string passed explicitly is the
\* entity's id
C6_Original ==
  \A e \in DOMAIN entities : GivenId(e) => id(e) = ctorArgs[e].id.id

\* C6 (amended): for every NON-EMPTY identifier string passed explicitly to
\* the constructor the entity's id equals exactly that string; an entity
\* constructed without an identifier, or with the empty string, receives a
\* generated id that is non-empty and distinct from every id generated
\* earlier; and an entity's id never changes after construction.
C6_Identity ==
  [][ /\ ( /\ \A e \in DOMAIN entities :
                (GivenId(e) /\ ctorArgs[e].id.id # "") => id(e) = ctorArgs[e].id.id
           /\ \A e \in DOMAIN entities : DrewId(e) => id(e) # ""
           /\ \A e1, e2 \in DOMAIN entities :
                (DrewId(e1) /\ DrewId(e2) /\ e1 # e2) => id(e1) # id(e2)
           /\ Cardinality({ e \in DOMAIN entities : DrewId(e) }) = generated )'
      /\ \A e \in DOMAIN entities : e \in DOMAIN entities' /\ id(e)' = id(e)
    ]_vars

C6_Witness ==
  \E e1, e2, e3 \in DOMAIN entities :
    /\ e1 < e2 /\ e2 < e3
    /\ ctorArgs[e1].id = NoId /\ id(e1) = "uuid-1"
    /\ ctorArgs[e2].id = [given |-> TRUE, id |-> "id-1"] /\ id(e2) = "id-1"
    /\ ctorArgs[e3].id = NoId /\ id(e3) = "uuid-2"

\* ---------------------------------------------------------------- C8
\* the smallest member of a non-empty set of positions
Earliest(S) == CHOOSE i \in S : \A j \in S : i <= j

\* positions among the first n of the store whose user has exactly this email
Matching(mail, n) == { i \in 1..n : email(users[i]) = mail }

C10_Original ==
  [][ /\ \A e \in DOMAIN entities :
           /\ name(e)' = name(e)
           /\ email(e)' = email(e)
           /\ password(e)' = password(e)
      /\ users' = users =>
           \A mail \in Emails \cup {""} :
             findByEmail(users, mail)' = findByEmail(users, mail)
    ]_vars

\* C10 (amended): an entity keeps a reference to the very property bag its
\* constructor was given (no copy is made) and never rebinds it; neither the
\* constructor nor the repository writes to a bag, so the accessors change
\* only when a caller writes to the bag it handed over, and then they return
\* the written value, which can change the result of findByEmail for a
\* stored user.
C10_Aliased ==
  [][ /\ ( \A e \in DOMAIN entities :
             /\ entities[e].props = ctorArgs[e].props
             /\ name(e) = heap[ctorArgs[e].props].name
             /\ email(e) = heap[ctorArgs[e].props].email
             /\ password(e) = heap[ctorArgs[e].props].password )'
      /\ \A e \in DOMAIN entities : entities'[e] = entities[e]
      /\ writes' = writes => \A p \in DOMAIN heap : heap'[p] = heap[p]
      /\ writes' # writes =>
           LET w == writes'[Len(writes')] IN
           \A e \in DOMAIN entities :
             ctorArgs[e].props = w.p =>
               heap'[entities'[e].props][w.f] = w.v
    ]_vars

C10_Witness ==
  /\ Len(users) = 1
  /\ Len(writes) = 1
  /\ writes[1] = [p |-> ctorArgs[users[1]].props, f |-> "email", v |-> "Ana@x.com"]
  /\ email(users[1]) = "Ana@x.com"
  /\ findByEmail(users, "Ana@x.com") = users[1]
  /\ findByEmail(users, "ana@x.com") = Null

====
